---- MODULE Spec2Model ----
(***************************************************************************)
(* notebooks.util.profile: format_size and the measure_read_time wrapper.  *)
(*                                                                         *)
(* Numbers.  format_size works on Python floats and divides them by 1024.  *)
(* A binary float divided by 1024 only has its exponent lowered, so the    *)
(* values the loop sees are written here in base 1024, exactly:            *)
(*     [neg, d, point]  stands for  (-1)^neg * SUM d[i] * 1024^(i-1-point) *)
(* d is the little-endian digit sequence and point the number of digits    *)
(* that lie behind the radix point.  All inputs of the model are below     *)
(* 2^53 in magnitude, where this is what the float holds.                  *)
(*                                                                         *)
(* Strings.  f"{x:.2f} {unit}" is the record [num |-> FormatFixed(x, 2),   *)
(* unit |-> unit]: sign, whole part and the rounded decimals, as printed.  *)
(***************************************************************************)
EXTENDS Integers, Sequences, FiniteSets, TLC

VARIABLES
    fs_pc,       \* format_size harness: "ready" before the call, "done" after
    fs_arg,      \* the size_in_bytes argument format_size is called with
    fs_out,      \* the string format_size returned
    pc,          \* wrapper: the statement that runs next ("idle" = not in a call)
    calls,       \* number of wrapper invocations started so far
    args,        \* (*args, **kwargs) of the current invocation
    start_mem,   \* wrapper locals; None while unbound
    start_time,
    end_time,
    end_mem,
    result,
    now,         \* wall clock, in ticks of 1/1024 s
    rss,         \* resident set size of the process, bytes
    stdout,      \* every line printed so far, oldest first
    trace,       \* what the current invocation did, in order
    outcome      \* what the caller got from the last finished invocation

vars == <<fs_pc, fs_arg, fs_out, pc, calls, args, start_mem, start_time,
          end_time, end_mem, result, now, rss, stdout, trace, outcome>>

fsVars == <<fs_pc, fs_arg, fs_out>>
wrapVars == <<pc, calls, args, start_mem, start_time, end_time, end_mem,
              result, now, rss, stdout, trace, outcome>>

\* an unbound local is <<>>, a bound one <<value>>
None == <<>>
Some(v) == <<v>>

-----------------------------------------------------------------------------
(* Bounds *)

\* largest digit tried in the 1024^4 position of a format_size input
MaxTopDigit == 2
\* number of wrapper invocations a behaviour makes
MaxCalls == 2
\* the clock stops advancing once it has reached this many whole seconds
MaxSeconds == 2

-----------------------------------------------------------------------------
(* Exact base-1024 numbers *)

\* the divisor and threshold of format_size
Base == 1024

Digit(x, i) == IF i \in 1..Len(x.d) THEN x.d[i] ELSE 0

IsZero(x) == \A i \in 1..Len(x.d) : x.d[i] = 0

\* size_in_bytes <= 1024 (the comparison off by one)
LessThanBase_AtMost(x) ==
    \/ x.neg
    \/ \A i \in (x.point + 2)..Len(x.d) : x.d[i] = 0
    \/ /\ Digit(x, x.point + 2) = 1
       /\ \A i \in 1..Len(x.d) : i # x.point + 2 => x.d[i] = 0

\* abs(size_in_bytes) < 1024 (the sign ignored)
LessThanBase_Magnitude(x) == \A i \in (x.point + 2)..Len(x.d) : x.d[i] = 0

\* size_in_bytes < 1024
LessThanBase(x) == x.neg \/ \A i \in (x.point + 2)..Len(x.d) : x.d[i] = 0

\* size_in_bytes /= 1024
DivBase(x) == [x EXCEPT !.point = @ + 1]

RECURSIVE WholeFrom(_, _)
WholeFrom(x, i) ==
    IF i > Len(x.d) THEN 0 ELSE x.d[i] + Base * WholeFrom(x, i + 1)

\* the integer part of |x|
Whole(x) == WholeFrom(x, x.point + 1)

\* |x|'s fraction times scale, by long multiplication from the lowest digit:
\* Carry is what position i hands upward, Rest what stays in position i.
RECURSIVE Carry(_, _, _)
Carry(x, scale, i) ==
    IF i = 0 THEN 0 ELSE (Digit(x, i) * scale + Carry(x, scale, i - 1)) \div Base

Rest(x, scale, i) == (Digit(x, i) * scale + Carry(x, scale, i - 1)) % Base

RECURSIVE Pow10(_)
Pow10(n) == IF n = 0 THEN 1 ELSE 10 * Pow10(n - 1)

\* the magnitude formatted and the sign lost
FormatFixed_Unsigned(x, places) ==
    LET scale == Pow10(places)
        p     == x.point
        low   == Carry(x, scale, p)
        top   == IF p = 0 THEN 0 ELSE Rest(x, scale, p)
        below == \E i \in 1..(p - 1) : Rest(x, scale, i) # 0
        up    == \/ 2 * top > Base
                 \/ 2 * top = Base /\ (below \/ low % 2 = 1)
        frac  == IF up THEN low + 1 ELSE low
    IN  [neg    |-> FALSE,
         whole  |-> IF frac = scale THEN Whole(x) + 1 ELSE Whole(x),
         frac   |-> IF frac = scale THEN 0 ELSE frac,
         places |-> places]

\* f"{x:.<places>f}": correctly rounded, ties to even
FormatFixed(x, places) ==
    LET scale == Pow10(places)
        p     == x.point
        low   == Carry(x, scale, p)
        top   == IF p = 0 THEN 0 ELSE Rest(x, scale, p)
        below == \E i \in 1..(p - 1) : Rest(x, scale, i) # 0
        up    == \/ 2 * top > Base
                 \/ 2 * top = Base /\ (below \/ low % 2 = 1)
        frac  == IF up THEN low + 1 ELSE low
    IN  [neg    |-> x.neg,
         whole  |-> IF frac = scale THEN Whole(x) + 1 ELSE Whole(x),
         frac   |-> IF frac = scale THEN 0 ELSE frac,
         places |-> places]

\* a Python int as a number
RECURSIVE DigitsOf(_)
DigitsOf(n) == IF n = 0 THEN <<>> ELSE <<n % Base>> \o DigitsOf(n \div Base)

FromInt(n) ==
    [neg |-> n < 0, d |-> DigitsOf(IF n < 0 THEN -n ELSE n), point |-> 0]

-----------------------------------------------------------------------------
(* format_size *)

Units == <<"B", "KB", "MB", "GB">>

SizeString(x, unit) == [num |-> FormatFixed(x, 2), unit |-> unit]

\* the for loop from its u-th unit on, and the return after it
RECURSIVE FormatFrom(_, _)
FormatFrom(size_in_bytes, u) ==
    IF u > Len(Units)
    THEN SizeString(size_in_bytes, "GB")
    ELSE IF LessThanBase(size_in_bytes)
         THEN SizeString(size_in_bytes, Units[u])
         ELSE FormatFrom(DivBase(size_in_bytes), u + 1)

format_size(size_in_bytes) == FormatFrom(size_in_bytes, 1)

-----------------------------------------------------------------------------
(* The inputs format_size is tried on *)

\* digit values: 0, 1, 5, an exact .xx5 tie (128/1024 = 0.125), a half, the top
DigitVals == {0, 1, 5, 128, 512, Base - 1}

\* sizes in 1/1024 bytes up to (MaxTopDigit + 1) * 1024^4: one digit behind the
\* point, then the B, KB, MB, GB positions and the one above GB
NonNegSizes ==
    { [neg |-> FALSE, d |-> <<h, b, k, m, g, t>>, point |-> 1] :
        h \in DigitVals, b \in DigitVals, k \in DigitVals, m \in DigitVals,
        g \in {0, 1, Base - 1}, t \in 0..MaxTopDigit }

\* negative sizes (memory deltas), magnitude below 1024^3
NegSizes ==
    { [neg |-> TRUE, d |-> <<h, b, k, m>>, point |-> 1] :
        h \in DigitVals, b \in DigitVals, k \in DigitVals, m \in DigitVals }
    \ { [neg |-> TRUE, d |-> <<0, 0, 0, 0>>, point |-> 1] }

Sizes == NonNegSizes \cup NegSizes

InitFmt ==
    /\ fs_pc = "ready"
    /\ fs_arg \in Sizes
    /\ fs_out = None

CallFormatSize ==
    /\ fs_pc = "ready"
    /\ fs_out' = format_size(fs_arg)
    /\ fs_pc' = "done"
    /\ UNCHANGED fs_arg
    /\ UNCHANGED wrapVars

-----------------------------------------------------------------------------
(* The world around the wrapper *)

\* what the caller may pass: (*args, **kwargs), kwargs as <<name, value>> pairs
ArgSets ==
    { [args |-> <<>>, kwargs |-> <<>>],
      [args |-> <<"data.csv">>, kwargs |-> << <<"sep", ";">> >>] }

\* what func may do: return a value or raise (type and message)
Values == {"V1", "V2"}
FuncErrors == {"ValueError: bad input"}
FuncOutcomes ==
    { [kind |-> "returned", val |-> v] : v \in Values }
    \cup { [kind |-> "raised", val |-> e] : e \in FuncErrors }

\* failures of the collaborators
ProcessError == "psutil.NoSuchProcess"
MemoryError == "psutil.AccessDenied"
ClockError == "OSError: clock"

\* how long gc.collect() or func may take, in ticks: nothing, 0.0625 s, 1.5625 s
Durations == {0, 64, 1600}

\* resident set sizes the process may have
RssVals == {4096, 5632, 1052672}

NoOutcome == [kind |-> "none", val |-> ""]

Event(op, val) == [op |-> op, val |-> val]

\* time.time() is now / 1024 seconds; the difference of two readings is exact
Seconds(ticks) ==
    [neg |-> ticks < 0, d |-> DigitsOf(IF ticks < 0 THEN -ticks ELSE ticks),
     point |-> 1]

-----------------------------------------------------------------------------
(* measure_read_time: wrapper *)

\* print(f"Time taken: {(end_time - start_time):.3f} seconds")
TimeLine(st, et) ==
    [label |-> "Time taken: ",
     value |-> [num |-> FormatFixed(Seconds(et - st), 3), unit |-> "seconds"]]

\* the delta taken as start minus end
MemoryLine_Swapped(sm, em) ==
    [label |-> "Memory usage: ", value |-> format_size(FromInt(sm - em))]

\* print(f"Memory usage: {format_size(end_mem - start_mem)}")
MemoryLine(sm, em) ==
    [label |-> "Memory usage: ", value |-> format_size(FromInt(em - sm))]

\* func(*args): the keyword arguments dropped
Forwarded_NoKwargs(a) == [a EXCEPT !.kwargs = <<>>]

\* func(*args, **kwargs)
Forwarded(a) == a

\* the wrapper ends without "return result"
Returned_Nothing(r) == "None"

\* return result
Returned(r) == r

\* the measurements kept in state that outlives the call
FrameKept == UNCHANGED <<start_mem, start_time, end_time, end_mem, result>>

\* the frame's locals after the wrapper is left
FrameGone ==
    /\ start_mem' = None
    /\ start_time' = None
    /\ end_time' = None
    /\ end_mem' = None
    /\ result' = None

\* the exception caught and dropped
Propagate_Swallowed(e) ==
    /\ outcome' = [kind |-> "returned", val |-> "None"]
    /\ pc' = "idle"
    /\ start_mem' = None
    /\ start_time' = None
    /\ end_time' = None
    /\ end_mem' = None
    /\ result' = None

\* an exception leaves the wrapper: nothing catches it
Propagate(e) ==
    /\ outcome' = [kind |-> "raised", val |-> e]
    /\ pc' = "idle"
    /\ FrameGone

Init ==
    /\ fs_pc = "done"
    /\ fs_arg = FromInt(0)
    /\ fs_out = format_size(FromInt(0))
    /\ pc = "idle"
    /\ calls = 0
    /\ args = None
    /\ start_mem = None
    /\ start_time = None
    /\ end_time = None
    /\ end_mem = None
    /\ result = None
    /\ now = 0
    /\ rss \in RssVals
    /\ stdout = <<>>
    /\ trace = <<>>
    /\ outcome = NoOutcome

\* the caller calls the wrapped function
Invoke ==
    /\ pc = "idle"
    /\ calls < MaxCalls
    /\ \E a \in ArgSets : args' = Some(a)
    /\ calls' = calls + 1
    /\ trace' = <<Event("enter", Len(stdout))>>
    /\ outcome' = NoOutcome
    /\ pc' = "gc_collect"
    /\ UNCHANGED <<start_mem, start_time, end_time, end_mem, result, now, rss,
                   stdout>>
    /\ UNCHANGED fsVars

\* gc.collect(): takes time and may give memory back
GcCollect ==
    /\ pc = "gc_collect"
    /\ \E dt \in Durations :
          /\ dt > 0 => now < MaxSeconds * Base
          /\ now' = now + dt
    /\ rss' \in {r \in RssVals : r <= rss}
    /\ trace' = Append(trace, Event("gc", None))
    /\ pc' = "process"
    /\ UNCHANGED <<calls, args, start_mem, start_time, end_time, end_mem,
                   result, stdout, outcome>>
    /\ UNCHANGED fsVars

\* process = psutil.Process()
MakeProcess ==
    /\ pc = "process"
    /\ \/ /\ pc' = "start_mem"
          /\ UNCHANGED <<start_mem, start_time, end_time, end_mem, result,
                         outcome>>
       \/ Propagate(ProcessError)
    /\ UNCHANGED <<calls, args, now, rss, stdout, trace>>
    /\ UNCHANGED fsVars

\* start_mem = process.memory_info().rss
SampleStartMem ==
    /\ pc = "start_mem"
    /\ \/ /\ start_mem' = Some(rss)
          /\ trace' = Append(trace, Event("rss", rss))
          /\ pc' = "start_time"
          /\ UNCHANGED <<start_time, end_time, end_mem, result, outcome>>
       \/ /\ Propagate(MemoryError)
          /\ UNCHANGED trace
    /\ UNCHANGED <<calls, args, now, rss, stdout>>
    /\ UNCHANGED fsVars

\* start_time = time.time()
SampleStartTime ==
    /\ pc = "start_time"
    /\ \/ /\ start_time' = Some(now)
          /\ trace' = Append(trace, Event("time", now))
          /\ pc' = "func"
          /\ UNCHANGED <<start_mem, end_time, end_mem, result, outcome>>
       \/ /\ Propagate(ClockError)
          /\ UNCHANGED trace
    /\ UNCHANGED <<calls, args, now, rss, stdout>>
    /\ UNCHANGED fsVars

\* result = func(*args, **kwargs): func runs once, takes time, changes memory,
\* and returns or raises
CallFunc ==
    /\ pc = "func"
    /\ rss' \in RssVals
    /\ \E dt \in Durations, out \in FuncOutcomes :
          /\ dt > 0 => now < MaxSeconds * Base
          /\ now' = now + dt
          /\ trace' = Append(trace,
                 Event("func", [with |-> Forwarded(args[1]), out |-> out,
                                took |-> dt]))
          /\ \/ /\ out.kind = "returned"
                /\ result' = Some(out.val)
                /\ pc' = "end_time"
                /\ UNCHANGED <<start_mem, start_time, end_time, end_mem,
                               outcome>>
             \/ /\ out.kind = "raised"
                /\ Propagate(out.val)
    /\ UNCHANGED <<calls, args, stdout>>
    /\ UNCHANGED fsVars

\* end_time = time.time()
SampleEndTime ==
    /\ pc = "end_time"
    /\ \/ /\ end_time' = Some(now)
          /\ trace' = Append(trace, Event("time", now))
          /\ pc' = "end_mem"
          /\ UNCHANGED <<start_mem, start_time, end_mem, result, outcome>>
       \/ /\ Propagate(ClockError)
          /\ UNCHANGED trace
    /\ UNCHANGED <<calls, args, now, rss, stdout>>
    /\ UNCHANGED fsVars

\* the time line printed as soon as end_time is known, before end_mem is read
SampleEndMem_PrintedEarly ==
    /\ pc = "end_mem"
    /\ \/ /\ end_mem' = Some(rss)
          /\ trace' = Append(trace, Event("rss", rss))
          /\ pc' = "print_mem"
          /\ UNCHANGED <<start_mem, start_time, end_time, result, outcome>>
       \/ /\ Propagate(MemoryError)
          /\ UNCHANGED trace
    /\ stdout' = Append(stdout, TimeLine(start_time[1], end_time[1]))
    /\ UNCHANGED <<calls, args, now, rss>>
    /\ UNCHANGED fsVars

\* end_mem = process.memory_info().rss
SampleEndMem ==
    /\ pc = "end_mem"
    /\ \/ /\ end_mem' = Some(rss)
          /\ trace' = Append(trace, Event("rss", rss))
          /\ pc' = "print_time"
          /\ UNCHANGED <<start_mem, start_time, end_time, result, outcome>>
       \/ /\ Propagate(MemoryError)
          /\ UNCHANGED trace
    /\ UNCHANGED <<calls, args, now, rss, stdout>>
    /\ UNCHANGED fsVars

\* print(f"Time taken: ...")
PrintTime ==
    /\ pc = "print_time"
    /\ stdout' = Append(stdout, TimeLine(start_time[1], end_time[1]))
    /\ trace' = Append(trace, Event("print", Len(stdout) + 1))
    /\ pc' = "print_mem"
    /\ UNCHANGED <<calls, args, start_mem, start_time, end_time, end_mem,
                   result, now, rss, outcome>>
    /\ UNCHANGED fsVars

\* print(f"Memory usage: ...")
PrintMemory ==
    /\ pc = "print_mem"
    /\ stdout' = Append(stdout, MemoryLine(start_mem[1], end_mem[1]))
    /\ trace' = Append(trace, Event("print", Len(stdout) + 1))
    /\ pc' = "return"
    /\ UNCHANGED <<calls, args, start_mem, start_time, end_time, end_mem,
                   result, now, rss, outcome>>
    /\ UNCHANGED fsVars

\* return result
Return ==
    /\ pc = "return"
    /\ outcome' = [kind |-> "returned", val |-> Returned(result[1])]
    /\ trace' = Append(trace, Event("return", None))
    /\ pc' = "idle"
    /\ FrameGone
    /\ UNCHANGED <<calls, args, now, rss, stdout>>
    /\ UNCHANGED fsVars

Next ==
    \/ Invoke
    \/ GcCollect
    \/ MakeProcess
    \/ SampleStartMem
    \/ SampleStartTime
    \/ CallFunc
    \/ SampleEndTime
    \/ SampleEndMem
    \/ PrintTime
    \/ PrintMemory
    \/ Return

Spec == Init /\ [][Next]_vars

-----------------------------------------------------------------------------
(* format_size on its own *)

InitFormat ==
    /\ InitFmt
    /\ pc = "idle"
    /\ calls = 0
    /\ args = None
    /\ start_mem = None
    /\ start_time = None
    /\ end_time = None
    /\ end_mem = None
    /\ result = None
    /\ now = 0
    /\ rss = 4096
    /\ stdout = <<>>
    /\ trace = <<>>
    /\ outcome = NoOutcome

NextFormat == CallFormatSize

SpecFormat == InitFormat /\ [][NextFormat]_vars

-----------------------------------------------------------------------------
(* What the properties below are written in *)

\* index of the highest digit of x that is not 0; 0 when x is zero
TopIndex(x) ==
    IF IsZero(x) THEN 0
    ELSE CHOOSE i \in 1..Len(x.d) :
            x.d[i] # 0 /\ \A j \in (i + 1)..Len(x.d) : x.d[j] = 0

\* the k with 1024^k <= |x| < 1024^(k+1), and 0 when |x| < 1
Rank(x) ==
    IF TopIndex(x) <= x.point THEN 0 ELSE TopIndex(x) - x.point - 1

\* x / 1024^k
Scaled(x, k) == [x EXCEPT !.point = @ + k]

\* the string "<-><whole>.<frac as 2 digits> <unit>"
Str(neg, whole, frac, unit) ==
    [num |-> [neg |-> neg, whole |-> whole, frac |-> frac, places |-> 2],
     unit |-> unit]

SizeStrings ==
    [num : [neg : BOOLEAN, whole : Nat, frac : 0..99, places : {2}],
     unit : {"B", "KB", "MB", "GB"}]

InCall == trace # <<>>

\* the lines the current (or last) invocation has printed
Printed == SubSeq(stdout, trace[1].val + 1, Len(stdout))

Ops == [i \in 1..Len(trace) |-> trace[i].op]

FuncEvents == SelectSeq(trace, LAMBDA e : e.op = "func")
RssSamples == SelectSeq(trace, LAMBDA e : e.op = "rss")
TimeSamples == SelectSeq(trace, LAMBDA e : e.op = "time")

IsPrefix(s, t) == Len(s) <= Len(t) /\ \A i \in 1..Len(s) : s[i] = t[i]

StepOrder ==
    <<"enter", "gc", "rss", "time", "func", "time", "rss", "print", "print",
      "return">>

CollaboratorErrors == {ProcessError, MemoryError, ClockError}

\* the two report lines, from the samples the current invocation logged
ReportOfThisCall ==
    << [label |-> "Time taken: ",
        value |-> [num |-> FormatFixed(
                              Seconds(TimeSamples[2].val - TimeSamples[1].val), 3),
                   unit |-> "seconds"]],
       [label |-> "Memory usage: ",
        value |-> format_size(FromInt(RssSamples[2].val - RssSamples[1].val))] >>

-----------------------------------------------------------------------------
(* format_size *)

\* C1: for every size >= 1024^3, sizes >= 1024^4 included, format_size returns
\* size / 1024^3 to 2 decimals followed by " GB": three divisions, never a fourth.
C1_GBTerminal ==
    (fs_pc = "done" /\ ~fs_arg.neg /\ Rank(fs_arg) >= 3)
        => fs_out = [num |-> FormatFixed(Scaled(fs_arg, 3), 2), unit |-> "GB"]

\* C2: for 0 <= size < 1024^3 the unit follows the range: [0, 1024) gives
\* "<size:.2f> B", [1024, 1024^2) "<size/1024:.2f> KB", [1024^2, 1024^3)
\* "<size/1024^2:.2f> MB"; 0 gives "0.00 B", 1536 "1.50 KB", 1048576 "1.00 MB".
C2_UnitByRange ==
    /\ (fs_pc = "done" /\ ~fs_arg.neg /\ Rank(fs_arg) <= 2)
          => fs_out = [num  |-> FormatFixed(Scaled(fs_arg, Rank(fs_arg)), 2),
                       unit |-> <<"B", "KB", "MB">>[Rank(fs_arg) + 1]]
    /\ format_size(FromInt(0)) = Str(FALSE, 0, 0, "B")
    /\ format_size(FromInt(1536)) = Str(FALSE, 1, 50, "KB")
    /\ format_size(FromInt(1048576)) = Str(FALSE, 1, 0, "MB")

\* a size of exactly 1024 bytes came out as "1.00 KB"
C2_Witness ==
    /\ fs_pc = "done"
    /\ fs_arg = [neg |-> FALSE, d |-> <<0, 0, 1, 0, 0, 0>>, point |-> 1]
    /\ fs_out = Str(FALSE, 1, 0, "KB")

\* C7: format_size has no error outcome: every input, zero and negatives
\* included, comes back as a formatted string, and a negative input as a
\* negative-number string (-5 gives "-5.00 B").
C7_NoErrorOutcome ==
    /\ fs_pc = "done" =>
          /\ fs_out \in SizeStrings
          /\ fs_out.num.neg = fs_arg.neg
    /\ format_size(FromInt(-5)) = Str(TRUE, 5, 0, "B")
    /\ format_size(FromInt(0)) \in SizeStrings

\* -5 bytes came out as "-5.00 B"
C7_Witness ==
    /\ fs_pc = "done"
    /\ fs_arg = [neg |-> TRUE, d |-> <<0, 5, 0, 0>>, point |-> 1]
    /\ fs_out = Str(TRUE, 5, 0, "B")

\* C10: a negative input of any magnitude is never divided: it comes back as
\* the raw value to 2 decimals with unit "B", so from 1024 on format_size(-x)
\* is not format_size(x) with a minus sign.
C10_NegativeNeverScaled ==
    /\ (fs_pc = "done" /\ fs_arg.neg) =>
          /\ fs_out.unit = "B"
          /\ fs_out.num = FormatFixed(fs_arg, 2)
          /\ fs_out.num.whole >= Whole(fs_arg)
          /\ Rank(fs_arg) >= 1 =>
                LET pos == format_size([fs_arg EXCEPT !.neg = FALSE])
                IN  fs_out # [pos EXCEPT !.num.neg = TRUE]
    /\ format_size(FromInt(-5 * 1048576)) = Str(TRUE, 5242880, 0, "B")

\* -5 * 1024^2 bytes came out as "-5242880.00 B"
C10_Witness ==
    /\ fs_pc = "done"
    /\ fs_arg = [neg |-> TRUE, d |-> <<0, 0, 0, 5>>, point |-> 1]
    /\ fs_out = Str(TRUE, 5242880, 0, "B")

-----------------------------------------------------------------------------
(* measure_read_time *)

\* C3: when func returns V, the wrapper called with the same arguments returns
\* exactly V.
C3_ResultPreserved ==
    outcome.kind = "returned" =>
        /\ Len(FuncEvents) = 1
        /\ FuncEvents[1].val.out = [kind |-> "returned", val |-> outcome.val]

\* the second call returned what func returned, "V2"
C3_Witness ==
    /\ calls = 2
    /\ outcome = [kind |-> "returned", val |-> "V2"]
    /\ Len(FuncEvents) = 1
    /\ FuncEvents[1].val.out.val = "V2"

\* C4: when func raises, the caller gets that same failure (type and message),
\* the post-call time and memory samples are never taken, and the call prints
\* no line.
C4_FailurePropagates ==
    \A i \in 1..Len(trace) :
        (trace[i].op = "func" /\ trace[i].val.out.kind = "raised") =>
            /\ pc = "idle"
            /\ outcome = [kind |-> "raised", val |-> trace[i].val.out.val]
            /\ i = Len(trace)
            /\ Len(TimeSamples) = 1
            /\ Len(RssSamples) = 1
            /\ Printed = <<>>

\* a first call reported, then func raised in the second and nothing more was
\* printed
C4_Witness ==
    /\ calls = 2
    /\ Len(stdout) = 2
    /\ outcome = [kind |-> "raised", val |-> "ValueError: bad input"]
    /\ Len(FuncEvents) = 1
    /\ FuncEvents[1].val.out.kind = "raised"

\* C5: an invocation that returns normally has printed exactly two lines, first
\* "Time taken: <end_time - start_time, 3 decimals> seconds", then
\* "Memory usage: <format_size(end_mem - start_mem)>" (the delta may be
\* negative), both after func returned and before the wrapper returns.
C5_ReportLines ==
    /\ outcome.kind = "returned" =>
          /\ Len(TimeSamples) = 2
          /\ Len(RssSamples) = 2
          /\ Printed = ReportOfThisCall
          /\ LET n == Len(trace)
             IN  /\ trace[n].op = "return"
                 /\ trace[n - 1].op = "print" /\ trace[n - 1].val = Len(stdout)
                 /\ trace[n - 2].op = "print"
                 /\ trace[n - 2].val = Len(stdout) - 1
                 /\ \E i \in 1..(n - 3) : trace[i].op = "func"
    /\ pc \in {"gc_collect", "process", "start_mem", "start_time", "func",
               "end_time", "end_mem", "print_time"} => Printed = <<>>
    /\ pc = "print_mem" => Len(Printed) = 1
    /\ pc = "return" => Len(Printed) = 2

\* a call returned having printed "Time taken: 0.062 seconds" (0.0625 s, the
\* tie rounded to even) and a negative memory delta
C5_Witness ==
    /\ outcome.kind = "returned"
    /\ Len(Printed) = 2
    /\ Printed[1].value.num = [neg |-> FALSE, whole |-> 0, frac |-> 62,
                               places |-> 3]
    /\ Printed[2].value = Str(TRUE, 1536, 0, "B")

\* C6: N calls in sequence give N independent reports: every call takes its
\* own samples, what it reports comes from those samples alone, and no
\* start_time, start_mem, end_time or end_mem outlives a call, a failed call
\* included.
C6_IndependentCalls ==
    /\ pc \in {"idle", "gc_collect", "process", "start_mem"} =>
          /\ start_mem = None
          /\ start_time = None
          /\ end_time = None
          /\ end_mem = None
          /\ result = None
    /\ start_mem # None => start_mem = Some(RssSamples[1].val)
    /\ start_time # None => start_time = Some(TimeSamples[1].val)
    /\ end_time # None => end_time = Some(TimeSamples[2].val)
    /\ end_mem # None => end_mem = Some(RssSamples[2].val)
    /\ (InCall /\ Len(Printed) = 2) => Printed = ReportOfThisCall
    /\ Len(stdout) <= 2 * calls

\* two calls returned and their two reports differ
C6_Witness ==
    /\ calls = 2
    /\ pc = "idle"
    /\ outcome.kind = "returned"
    /\ Len(stdout) = 4
    /\ stdout[1] # stdout[3]
    /\ stdout[2] # stdout[4]

\* C8: every invocation runs, in this order: garbage collection, start memory
\* sample, start time sample, func once with exactly the arguments supplied,
\* end time sample, end memory sample.  The collection comes before the first
\* memory sample on every call, and the two time samples enclose func only.
C8_StepOrder ==
    InCall =>
        /\ IsPrefix(Ops, StepOrder)
        /\ pc # "gc_collect" => Len(trace) >= 2
        /\ pc \in {"end_time", "end_mem", "print_time", "print_mem", "return"}
              => Len(FuncEvents) = 1
        /\ \A i \in 1..Len(FuncEvents) : FuncEvents[i].val.with = args[1]
        /\ Len(TimeSamples) = 2 =>
              TimeSamples[2].val - TimeSamples[1].val = FuncEvents[1].val.took

\* all six steps done for a call with keyword arguments, with a slow
\* collection and a fast func
C8_Witness ==
    /\ pc = "print_time"
    /\ Ops = SubSeq(StepOrder, 1, 7)
    /\ args[1].kwargs # <<>>
    /\ TimeSamples[1].val = 1600
    /\ TimeSamples[2].val = 1664

\* C9: a failure of the memory or clock collaborator reaches the caller, with
\* no retry and no partial result: before the call func is never invoked,
\* after it func's result is not returned, and no report line is printed.
C9_CollaboratorFailure ==
    /\ (outcome.kind = "raised" /\ outcome.val \in CollaboratorErrors) =>
          /\ pc = "idle"
          /\ Printed = <<>>
          /\ trace[Len(trace)].op # "return"
          /\ Len(TimeSamples) = 0 => FuncEvents = <<>>
          /\ Len(FuncEvents) <= 1
          /\ Len(RssSamples) <= 1
          /\ Len(TimeSamples) <= 2
    /\ (InCall /\ pc = "idle") => Len(Printed) \in {0, 2}

\* func returned, then reading the end memory failed
C9_Witness ==
    /\ outcome = [kind |-> "raised", val |-> MemoryError]
    /\ Len(FuncEvents) = 1
    /\ FuncEvents[1].val.out.kind = "returned"
    /\ Len(TimeSamples) = 2
    /\ Printed = <<>>

====
